---- MODULE Spec2Model ----
(***************************************************************************)
(* Fairness and capacity utilities of the JBG truck scheduling demo        *)
(* (fairness.ts): calculateFairnessMetrics, getTrucksBelowQuota,           *)
(* getUnassignedLoads, getLoadsNeededForQuota and canLoadFitInTruck.       *)
(*                                                                         *)
(* A behaviour of Spec is one call of one of these functions: the call     *)
(* draws its arguments from bounded sets of truck and load arrays and      *)
(* records the value it returns.                                           *)
(*                                                                         *)
(* Encoding.  Identifiers ("truck-001", "T-001", "load-1001", "L-1001")    *)
(* are the number they carry.  Tons are whole numbers.  The fields of a    *)
(* Truck or Load that no modelled function reads (contractorName, size,    *)
(* destination, origin, priority, deadline, description) are left out.     *)
(* JavaScript numbers are IEEE-754 doubles: the two quotients of           *)
(* calculateFairnessMetrics are computed on a model of the double          *)
(* (53-bit significand, round to nearest, ties to even), all other         *)
(* arithmetic stays on small integers, where doubles are exact.            *)
(***************************************************************************)
EXTENDS Integers, Sequences, FiniteSets

VARIABLES op, trucks, loads, assignments, metrics, trucksOut, loadsOut, needed,
          fits, validation, currentView, mounts, isGenerating, error, requests

vars == <<op, trucks, loads, assignments, metrics, trucksOut, loadsOut, needed,
          fits, validation, currentView, mounts, isGenerating, error, requests>>

\* The view App shows, the number of Dashboards mounted so far, the
\* isGenerating and error state of the Dashboard that is mounted, and for each
\* Dashboard the number of its generateSchedule calls that have not settled.
dashboard == <<currentView, mounts, isGenerating, error, requests>>

(***************************************************************************)
(* Bounds of the model.                                                    *)
(***************************************************************************)
MaxTrucks == 3          \* longest truck array enumerated field by field
MaxWeeklyLoads == 3     \* weeklyLoads ranges over 0..MaxWeeklyLoads
MaxLoads == 3           \* longest load array
MaxTons == 3            \* sizeTons and capacityTons range over 1..MaxTons
MaxFleet == 40          \* largest uniform fleet (all trucks active)
MaxMounts == 2          \* Dashboards mounted one after the other

(***************************************************************************)
(* IEEE-754 double arithmetic on positive values.                          *)
(* A double is [kind, e, m]: kind "num" is the value                       *)
(*   (2^52 + m[1]*2^34 + m[2]*2^16 + m[3]) * 2^(e-52),                     *)
(* with m[1], m[2] < 2^18 and m[3] < 2^16: the 52 stored significand bits  *)
(* cut in three limbs so that every product stays below 2^31.              *)
(***************************************************************************)
LimbBits == 18
LowLimbBits == 16

Zero == [kind |-> "zero", e |-> 0, m |-> <<0, 0, 0>>]
NotANumber == [kind |-> "nan", e |-> 0, m |-> <<0, 0, 0>>]

\* Math.round(NaN) and NaN / 10, as a field of the metrics: no count, no
\* percentage and no average is negative, so -1 encodes NaN.
NaN == -1

\* Round to nearest, ties to even: m holds the 52 stored bits, guard the first
\* dropped bit, sticky whether any later dropped bit is set.
RoundNearestEven(e, m, guard, sticky) ==
  IF guard = 1 /\ (sticky \/ (m[3] % 2) = 1)
  THEN IF m[3] + 1 < 2^LowLimbBits
       THEN [kind |-> "num", e |-> e, m |-> <<m[1], m[2], m[3] + 1>>]
       ELSE IF m[2] + 1 < 2^LimbBits
       THEN [kind |-> "num", e |-> e, m |-> <<m[1], m[2] + 1, 0>>]
       ELSE IF m[1] + 1 < 2^LimbBits
       THEN [kind |-> "num", e |-> e, m |-> <<m[1] + 1, 0, 0>>]
       ELSE [kind |-> "num", e |-> e + 1, m |-> <<0, 0, 0>>]
  ELSE [kind |-> "num", e |-> e, m |-> m]

\* a / b scaled by a power of two so that b <= a < 2b; e is the exponent.
RECURSIVE Normalise(_, _, _)
Normalise(a, b, e) ==
  IF a < b THEN Normalise(2 * a, b, e - 1)
  ELSE IF a >= 2 * b THEN Normalise(a, 2 * b, e + 1)
  ELSE [a |-> a, b |-> b, e |-> e]

\* The double a / b of two non-negative integers (a = 0 whenever b = 0 here:
\* 0 / 0 is NaN).  Long division, 18 + 18 + 17 quotient bits after the leading 1.
FDiv(a, b) ==
  IF b = 0 THEN NotANumber
  ELSE IF a = 0 THEN Zero
  ELSE LET n  == Normalise(a, b, 0)
           r0 == n.a - n.b
           c1 == (r0 * 2^LimbBits) \div n.b
           r1 == (r0 * 2^LimbBits) % n.b
           c2 == (r1 * 2^LimbBits) \div n.b
           r2 == (r1 * 2^LimbBits) % n.b
           q3 == (r2 * 2^(LowLimbBits + 1)) \div n.b
           r3 == (r2 * 2^(LowLimbBits + 1)) % n.b
       IN  RoundNearestEven(n.e, <<c1, c2, q3 \div 2>>, q3 % 2, r3 # 0)

\* Number of bits of the positive integer n.
RECURSIVE BitLength(_)
BitLength(n) == IF n <= 1 THEN 1 ELSE 1 + BitLength(n \div 2)

\* The double x * c for a double x and a small positive integer c: the exact
\* product limb by limb, then rounded back to 53 bits.
FMul(x, c) ==
  IF x.kind # "num" THEN x
  ELSE LET p3  == x.m[3] * c
           l3  == p3 % 2^LowLimbBits
           p2  == (x.m[2] * c) + (p3 \div 2^LowLimbBits)
           l2  == p2 % 2^LimbBits
           p1  == (x.m[1] * c) + (p2 \div 2^LimbBits)
           l1  == p1 % 2^LimbBits
           top == c + (p1 \div 2^LimbBits)
           s   == BitLength(top) - 1
           c1  == ((top % 2^s) * 2^(LimbBits - s)) + (l1 \div 2^s)
           c2  == ((l1 % 2^s) * 2^(LimbBits - s)) + (l2 \div 2^s)
           c3  == ((l2 % 2^s) * 2^(LowLimbBits - s)) + (l3 \div 2^s)
           dropped == l3 % 2^s
       IN  IF s = 0 THEN x
           ELSE RoundNearestEven(x.e + s, <<c1, c2, c3>>,
                                 dropped \div 2^(s - 1), (dropped % 2^(s - 1)) # 0)

\* Math.floor, in place of Math.round.
MathFloor(x) ==
  IF x.kind = "nan" THEN NaN
  ELSE IF x.kind = "zero" \/ x.e < 0 THEN 0
  ELSE 2^x.e + (x.m[1] \div 2^(LimbBits - x.e))

\* Math.round: the integer nearest to x, a tie going up; NaN stays NaN.
\* From e = 0 on, the integer part is the leading 1 and the top e bits of m[1],
\* and the bit after them is the half.
MathRound(x) ==
  IF x.kind = "nan" THEN NaN
  ELSE IF x.kind = "zero" \/ x.e < -1 THEN 0
  ELSE IF x.e = -1 THEN 1
  ELSE 2^x.e + (x.m[1] \div 2^(LimbBits - x.e))
       + ((x.m[1] \div 2^(LimbBits - 1 - x.e)) % 2)

(***************************************************************************)
(* Data model (types/index.ts).                                            *)
(***************************************************************************)
DefaultQuota == 3       \* minWeeklyLoads of every generated truck

LoadStatus == {"unassigned", "assigned", "in_transit", "delivered"}

\* assignedTruckId: null
Null == 0

Truck(i, capacityTons, weeklyLoads, minWeeklyLoads, active) ==
  [id |-> i, truckId |-> i, capacityTons |-> capacityTons,
   weeklyLoads |-> weeklyLoads, minWeeklyLoads |-> minWeeklyLoads,
   active |-> active]

Load(i, sizeTons, status, assignedTruckId) ==
  [id |-> i, loadId |-> i, sizeTons |-> sizeTons, status |-> status,
   assignedTruckId |-> assignedTruckId]

Range(s) == {s[i] : i \in DOMAIN s}

(***************************************************************************)
(* Array.prototype.sort with a comparator: stable (ECMAScript 2019), so the *)
(* element at position i moves behind every element that compares smaller  *)
(* and every earlier element that compares equal.  The comparator is the   *)
(* function compare[<<a, b>>] on the pairs of elements of s.               *)
(***************************************************************************)
Sort(s, compare) ==
  LET Rank(i) == 1 + Cardinality({j \in DOMAIN s :
                      \/ compare[<<s[j], s[i]>>] < 0
                      \/ compare[<<s[j], s[i]>>] = 0 /\ j < i})
  IN  [p \in DOMAIN s |-> s[CHOOSE i \in DOMAIN s : Rank(i) = p]]

(***************************************************************************)
(* fairness.ts                                                             *)
(***************************************************************************)
\* trucks.filter(t => t.active)
AllTrucks(ts) == ts
ActiveTrucks(ts) == SelectSeq(ts, LAMBDA t : t.active)

\* activeTrucks.reduce((sum, t) => sum + t.weeklyLoads, 0)
RECURSIVE TotalLoads(_)
TotalLoads(ts) ==
  IF ts = <<>> THEN 0 ELSE ts[1].weeklyLoads + TotalLoads(Tail(ts))

BelowOrAtQuota(t) == t.weeklyLoads <= t.minWeeklyLoads
BelowQuota(t) == t.weeklyLoads < t.minWeeklyLoads
AtQuota(t) == t.weeklyLoads = t.minWeeklyLoads
AboveQuota(t) == t.weeklyLoads > t.minWeeklyLoads

ZeroMetrics ==
  [totalTrucks |-> 0, trucksAtQuota |-> 0, trucksBelowQuota |-> 0,
   trucksAboveQuota |-> 0, fairnessPercentage |-> 0,
   averageLoadsPerTruck |-> 0]

\* The metrics of a non-empty or empty array of active trucks, lines 21-33.
\* averageLoadsPerTruck is kept in tenths: Math.round(x) / 10 is the double
\* nearest to that many tenths.
QuotaMetrics(activeTrucks) ==
  LET belowQuota == SelectSeq(activeTrucks, BelowQuota)
      atQuota    == SelectSeq(activeTrucks, AtQuota)
      aboveQuota == SelectSeq(activeTrucks, AboveQuota)
      totalLoads == TotalLoads(activeTrucks)
  IN  [totalTrucks |-> Len(activeTrucks),
       trucksAtQuota |-> Len(atQuota),
       trucksBelowQuota |-> Len(belowQuota),
       trucksAboveQuota |-> Len(aboveQuota),
       fairnessPercentage |->
         MathRound(FMul(FDiv(Len(atQuota) + Len(aboveQuota), Len(activeTrucks)), 100)),
       averageLoadsPerTruck |->
         MathRound(FMul(FDiv(totalLoads, Len(activeTrucks)), 10))]

UnguardedMetrics(ts) == QuotaMetrics(ActiveTrucks(ts))
calculateFairnessMetrics(ts) ==
  LET activeTrucks == ActiveTrucks(ts)
  IN  IF Len(activeTrucks) = 0 THEN ZeroMetrics ELSE QuotaMetrics(activeTrucks)

\* t => t.active && t.weeklyLoads < t.minWeeklyLoads
ActiveNotAboveQuota(t) == t.active /\ t.weeklyLoads <= t.minWeeklyLoads
ActiveBelowQuota(t) == t.active /\ t.weeklyLoads < t.minWeeklyLoads

\* (a, b) => a.weeklyLoads - b.weeklyLoads
MostLoadsFirst(a, b) == b.weeklyLoads - a.weeklyLoads
FewestLoadsFirst(a, b) == a.weeklyLoads - b.weeklyLoads

getTrucksBelowQuota(ts) ==
  LET filtered == SelectSeq(ts, ActiveBelowQuota)
  IN  Sort(filtered, [p \in Range(filtered) \X Range(filtered) |->
                        FewestLoadsFirst(p[1], p[2])])

\* l => l.status === 'unassigned'
NotAssigned(l) == l.status # "assigned"
IsUnassigned(l) == l.status = "unassigned"

getUnassignedLoads(ls) == SelectSeq(ls, IsUnassigned)

Max(a, b) == IF a >= b THEN a ELSE b

LoadsMissing(truck) ==
  IF ~truck.active THEN 0 ELSE truck.minWeeklyLoads - truck.weeklyLoads
getLoadsNeededForQuota(truck) ==
  IF ~truck.active THEN 0
  ELSE Max(0, truck.minWeeklyLoads - truck.weeklyLoads)

StrictlySmaller(load, truck) ==
  truck.active /\ load.sizeTons < truck.capacityTons
FitsInactiveToo(load, truck) == load.sizeTons <= truck.capacityTons
canLoadFitInTruck(load, truck) ==
  truck.active /\ load.sizeTons <= truck.capacityTons

\* The comparator of findSuitableTrucks: higher need first, then fewer loads.
LeastNeedFirst(a, b) ==
  LET aNeeds == getLoadsNeededForQuota(a)
      bNeeds == getLoadsNeededForQuota(b)
  IN  IF aNeeds # bNeeds THEN aNeeds - bNeeds
      ELSE a.weeklyLoads - b.weeklyLoads
NeedThenMostLoads(a, b) ==
  LET aNeeds == getLoadsNeededForQuota(a)
      bNeeds == getLoadsNeededForQuota(b)
  IN  IF aNeeds # bNeeds THEN bNeeds - aNeeds
      ELSE b.weeklyLoads - a.weeklyLoads
MostNeedFirst(a, b) ==
  LET aNeeds == getLoadsNeededForQuota(a)
      bNeeds == getLoadsNeededForQuota(b)
  IN  IF aNeeds # bNeeds THEN bNeeds - aNeeds
      ELSE a.weeklyLoads - b.weeklyLoads

\* trucks.filter(t => canLoadFitInTruck(load, t))
LargeEnough(load, ts) ==
  SelectSeq(ts, LAMBDA t : load.sizeTons <= t.capacityTons)
SuitableTrucks(load, ts) ==
  SelectSeq(ts, LAMBDA t : canLoadFitInTruck(load, t))

findSuitableTrucks(load, ts) ==
  LET filtered == SuitableTrucks(load, ts)
  IN  Sort(filtered, [p \in Range(filtered) \X Range(filtered) |->
                        MostNeedFirst(p[1], p[2])])

\* The error strings of validateAssignment, by template and by the values
\* the template prints (a value a template does not print is 0 or "").
LoadNotFound(loadId) ==
  [kind |-> "Load not found", loadId |-> loadId, truckId |-> 0,
   sizeTons |-> 0, capacityTons |-> 0, status |-> ""]
TruckNotFound(truckId) ==
  [kind |-> "Truck not found", loadId |-> 0, truckId |-> truckId,
   sizeTons |-> 0, capacityTons |-> 0, status |-> ""]
TruckInactive(truckId) ==
  [kind |-> "Truck is inactive", loadId |-> 0, truckId |-> truckId,
   sizeTons |-> 0, capacityTons |-> 0, status |-> ""]
CapacityExceeded(loadId, sizeTons, truckId, capacityTons) ==
  [kind |-> "Load exceeds truck capacity", loadId |-> loadId,
   truckId |-> truckId, sizeTons |-> sizeTons,
   capacityTons |-> capacityTons, status |-> ""]
LoadAlready(loadId, status) ==
  [kind |-> "Load is already", loadId |-> loadId, truckId |-> 0,
   sizeTons |-> 0, capacityTons |-> 0, status |-> status]

\* Array.prototype.find on a display code: the position of the first element
\* with that code, 0 for undefined.
FindLoad(ls, loadId) ==
  IF \E i \in DOMAIN ls : ls[i].loadId = loadId
  THEN CHOOSE i \in DOMAIN ls :
         /\ ls[i].loadId = loadId
         /\ \A j \in 1..(i - 1) : ls[j].loadId # loadId
  ELSE 0
FindTruck(ts, truckId) ==
  IF \E i \in DOMAIN ts : ts[i].truckId = truckId
  THEN CHOOSE i \in DOMAIN ts :
         /\ ts[i].truckId = truckId
         /\ \A j \in 1..(i - 1) : ts[j].truckId # truckId
  ELSE 0

\* Lines 113-123: the three checks of a pair whose load and truck exist, each
\* pushing its error.
FirstFailedCheck(assignment, load, truck, errors) ==
  IF ~truck.active THEN Append(errors, TruckInactive(assignment.truckId))
  ELSE IF load.sizeTons > truck.capacityTons
  THEN Append(errors, CapacityExceeded(assignment.loadId, load.sizeTons,
                                       assignment.truckId, truck.capacityTons))
  ELSE IF load.status # "unassigned"
  THEN Append(errors, LoadAlready(assignment.loadId, load.status))
  ELSE errors
ChecksWithoutStatus(assignment, load, truck, errors) ==
  LET e1 == IF ~truck.active
            THEN Append(errors, TruckInactive(assignment.truckId)) ELSE errors
  IN  IF load.sizeTons > truck.capacityTons
      THEN Append(e1, CapacityExceeded(assignment.loadId, load.sizeTons,
                                       assignment.truckId, truck.capacityTons))
      ELSE e1
PairChecks(assignment, load, truck, errors) ==
  LET e1 == IF ~truck.active
            THEN Append(errors, TruckInactive(assignment.truckId)) ELSE errors
      e2 == IF load.sizeTons > truck.capacityTons
            THEN Append(e1, CapacityExceeded(assignment.loadId, load.sizeTons,
                                             assignment.truckId, truck.capacityTons))
            ELSE e1
  IN  IF load.status # "unassigned"
      THEN Append(e2, LoadAlready(assignment.loadId, load.status))
      ELSE e2

\* Lines 100-123: the body of the loop, errors before and after.
CheckTruckFirst(assignment, ts, ls, errors) ==
  LET load  == FindLoad(ls, assignment.loadId)
      truck == FindTruck(ts, assignment.truckId)
  IN  IF truck = 0 THEN Append(errors, TruckNotFound(assignment.truckId))
      ELSE IF load = 0 THEN Append(errors, LoadNotFound(assignment.loadId))
      ELSE PairChecks(assignment, ls[load], ts[truck], errors)
CheckPair(assignment, ts, ls, errors) ==
  LET load  == FindLoad(ls, assignment.loadId)
      truck == FindTruck(ts, assignment.truckId)
  IN  IF load = 0 THEN Append(errors, LoadNotFound(assignment.loadId))
      ELSE IF truck = 0 THEN Append(errors, TruckNotFound(assignment.truckId))
      ELSE PairChecks(assignment, ls[load], ts[truck], errors)

\* for (const assignment of assignments), from the i-th pair on; a loop that
\* ends at the first pair with a missing load or truck in place of `continue`.
RECURSIVE ValidateUntilMissing(_, _, _, _, _)
ValidateUntilMissing(as, i, ts, ls, errors) ==
  IF i > Len(as) THEN errors
  ELSE IF FindLoad(ls, as[i].loadId) = 0 \/ FindTruck(ts, as[i].truckId) = 0
  THEN CheckPair(as[i], ts, ls, errors)
  ELSE ValidateUntilMissing(as, i + 1, ts, ls, CheckPair(as[i], ts, ls, errors))
RECURSIVE ValidateFrom(_, _, _, _, _)
ValidateFrom(as, i, ts, ls, errors) ==
  IF i > Len(as) THEN errors
  ELSE ValidateFrom(as, i + 1, ts, ls, CheckPair(as[i], ts, ls, errors))

validateAssignments(as, ts, ls) ==
  LET errors == ValidateFrom(as, 1, ts, ls, <<>>)
  IN  [valid |-> Len(errors) = 0, errors |-> errors]

(***************************************************************************)
(* The arguments the calls are made with.                                  *)
(***************************************************************************)
\* error: null
NoError == "null"

\* App starts on the dashboard, nothing being generated.
InitDashboard ==
  /\ currentView = "dashboard"
  /\ mounts = 1
  /\ isGenerating = FALSE
  /\ error = NoError
  /\ requests = [k \in 1..MaxMounts |-> 0]

WeeklyLoadsRange == 0..MaxWeeklyLoads
TonsRange == 1..MaxTons
FleetQuotas == {1, DefaultQuota}

\* Any one truck.
TruckValues ==
  {Truck(1, c, w, q, a) : c \in TonsRange, w \in WeeklyLoadsRange,
                          q \in WeeklyLoadsRange, a \in BOOLEAN}

\* A fleet of n trucks: the display codes of a fleet are unique, the truck at
\* position i carries number i.  w, q and a give the weeklyLoads, the
\* minWeeklyLoads and the active flag of each position.
Fleet(n, w, q, a) == [i \in 1..n |-> Truck(i, MaxTons, w[i], q[i], a[i])]

\* An array may hold the same truck twice: the fleet, or the fleet with its
\* first truck once more behind it.
TruckArray(n, w, q, a, again) ==
  IF again /\ 1 <= n /\ n < MaxTrucks
  THEN Append(Fleet(n, w, q, a), Fleet(n, w, q, a)[1])
  ELSE Fleet(n, w, q, a)

\* n active trucks with the default quota, the first k of them at quota and
\* the others with w loads each.
UniformFleet(n, k, w) ==
  [i \in 1..n |-> Truck(i, MaxTons, IF i <= k THEN DefaultQuota ELSE w,
                        DefaultQuota, TRUE)]

\* Any one load.
LoadValues ==
  {Load(1, s, st, IF st = "unassigned" THEN Null ELSE 1) :
     s \in TonsRange, st \in LoadStatus}

\* n loads numbered by position; a load that is not unassigned has a truck.
LoadArray(n, s, st) ==
  [i \in 1..n |-> Load(i, s[i], st[i], IF st[i] = "unassigned" THEN Null ELSE 1)]

(***************************************************************************)
(* One call per behaviour.                                                 *)
(***************************************************************************)
Init ==
  /\ op = "idle"
  /\ trucks = <<>>
  /\ loads = <<>>
  /\ metrics = ZeroMetrics
  /\ trucksOut = <<>>
  /\ loadsOut = <<>>
  /\ needed = 0
  /\ fits = FALSE
  /\ assignments = <<>>
  /\ validation = [valid |-> TRUE, errors |-> <<>>]
  /\ InitDashboard

CalculateFairnessMetrics ==
  /\ op = "idle"
  /\ \E n \in 0..MaxTrucks :
       \E w \in [1..n -> WeeklyLoadsRange], q \in [1..n -> FleetQuotas],
          a \in [1..n -> BOOLEAN], again \in BOOLEAN :
         /\ trucks' = TruckArray(n, w, q, a, again)
         /\ metrics' = calculateFairnessMetrics(trucks')
  /\ op' = "calculateFairnessMetrics"
  /\ UNCHANGED <<loads, trucksOut, loadsOut, needed, fits, assignments, validation>>
  /\ UNCHANGED dashboard

\* The same call on a large fleet.
CalculateFleetMetrics ==
  /\ op = "idle"
  /\ \E n \in 1..MaxFleet :
       \E k \in 0..n, w \in {0, 1} :
         /\ trucks' = UniformFleet(n, k, w)
         /\ metrics' = calculateFairnessMetrics(trucks')
  /\ op' = "calculateFairnessMetrics"
  /\ UNCHANGED <<loads, trucksOut, loadsOut, needed, fits, assignments, validation>>
  /\ UNCHANGED dashboard

GetTrucksBelowQuota ==
  /\ op = "idle"
  /\ \E n \in 0..MaxTrucks :
       \E w \in [1..n -> WeeklyLoadsRange], q \in [1..n -> FleetQuotas],
          a \in [1..n -> BOOLEAN], again \in BOOLEAN :
         /\ trucks' = TruckArray(n, w, q, a, again)
         /\ trucksOut' = getTrucksBelowQuota(trucks')
  /\ op' = "getTrucksBelowQuota"
  /\ UNCHANGED <<loads, metrics, loadsOut, needed, fits, assignments, validation>>
  /\ UNCHANGED dashboard

GetUnassignedLoads ==
  /\ op = "idle"
  /\ \E n \in 0..MaxLoads :
       \E s \in [1..n -> {1, MaxTons}], st \in [1..n -> LoadStatus] :
         /\ loads' = LoadArray(n, s, st)
         /\ loadsOut' = getUnassignedLoads(loads')
  /\ op' = "getUnassignedLoads"
  /\ UNCHANGED <<trucks, metrics, trucksOut, needed, fits, assignments, validation>>
  /\ UNCHANGED dashboard

GetLoadsNeededForQuota ==
  /\ op = "idle"
  /\ \E t \in TruckValues :
       /\ trucks' = <<t>>
       /\ needed' = getLoadsNeededForQuota(t)
  /\ op' = "getLoadsNeededForQuota"
  /\ UNCHANGED <<loads, metrics, trucksOut, loadsOut, fits, assignments, validation>>
  /\ UNCHANGED dashboard

CanLoadFitInTruck ==
  /\ op = "idle"
  /\ \E l \in LoadValues, t \in TruckValues :
       /\ loads' = <<l>>
       /\ trucks' = <<t>>
       /\ fits' = canLoadFitInTruck(l, t)
  /\ op' = "canLoadFitInTruck"
  /\ UNCHANGED <<metrics, trucksOut, loadsOut, needed, assignments, validation>>
  /\ UNCHANGED dashboard

Next ==
  \/ CalculateFairnessMetrics
  \/ CalculateFleetMetrics
  \/ GetTrucksBelowQuota
  \/ GetUnassignedLoads
  \/ GetLoadsNeededForQuota
  \/ CanLoadFitInTruck

Spec == Init /\ [][Next]_vars

(***************************************************************************)
(* Properties.                                                             *)
(***************************************************************************)
Count(t, s) == Cardinality({i \in DOMAIN s : s[i] = t})

ActiveIndices == {i \in DOMAIN trucks : trucks[i].active}

\* Sum of weeklyLoads over the active trucks among the first n of trucks.
RECURSIVE ActiveLoadsUpTo(_)
ActiveLoadsUpTo(n) ==
  IF n = 0 THEN 0
  ELSE ActiveLoadsUpTo(n - 1) + (IF trucks[n].active THEN trucks[n].weeklyLoads ELSE 0)

\* a / b rounded to the nearest integer, a half going up (a >= 0, b > 0).
RoundHalfUp(a, b) == (2 * a + b) \div (2 * b)

\* C1: the three quota counts of calculateFairnessMetrics add up to
\* totalTrucks, and totalTrucks is the number of trucks with active = true.
C1_PartitionComplete ==
  op = "calculateFairnessMetrics" =>
    /\ metrics.trucksBelowQuota + metrics.trucksAtQuota + metrics.trucksAboveQuota
         = metrics.totalTrucks
    /\ metrics.totalTrucks = Cardinality(ActiveIndices)

C1_Witness ==
  /\ op = "calculateFairnessMetrics"
  /\ metrics.trucksBelowQuota > 0
  /\ metrics.trucksAtQuota > 0
  /\ metrics.trucksAboveQuota > 0

\* C2: for an empty array, and for an array of inactive trucks only, all six
\* fields of the metrics are exactly 0 (none is NaN).
C2_EmptyFleetZero ==
  (op = "calculateFairnessMetrics" /\ ActiveIndices = {}) =>
    /\ metrics.totalTrucks = 0
    /\ metrics.trucksAtQuota = 0
    /\ metrics.trucksBelowQuota = 0
    /\ metrics.trucksAboveQuota = 0
    /\ metrics.fairnessPercentage = 0
    /\ metrics.averageLoadsPerTruck = 0

C2_Witness ==
  /\ op = "calculateFairnessMetrics"
  /\ Len(trucks) = MaxTrucks
  /\ ActiveIndices = {}
  /\ \E i \in DOMAIN trucks : trucks[i].weeklyLoads > 0

\* C3: with at least one active truck, fairnessPercentage is
\* 100 * (trucksAtQuota + trucksAboveQuota) / totalTrucks rounded to the
\* nearest integer, a half going up; it is an integer in 0..100, and it is 100
\* exactly when no active truck is below quota.
C3_FairnessPercentage ==
  (op = "calculateFairnessMetrics" /\ ActiveIndices # {}) =>
    /\ metrics.fairnessPercentage =
         RoundHalfUp(100 * (metrics.trucksAtQuota + metrics.trucksAboveQuota),
                     metrics.totalTrucks)
    /\ metrics.fairnessPercentage \in 0..100
    /\ metrics.fairnessPercentage = 100 <=> metrics.trucksBelowQuota = 0

\* C4: with at least one active truck, averageLoadsPerTruck in tenths is
\* 10 * sum(weeklyLoads of the active trucks) / (number of active trucks)
\* rounded to the nearest integer, a half going up.
C4_AverageLoads ==
  (op = "calculateFairnessMetrics" /\ ActiveIndices # {}) =>
    metrics.averageLoadsPerTruck =
      RoundHalfUp(10 * ActiveLoadsUpTo(Len(trucks)), Cardinality(ActiveIndices))

\* A call where the exact average lies half way between two tenths.
C4_Witness ==
  /\ op = "calculateFairnessMetrics"
  /\ ActiveIndices # {}
  /\ (20 * ActiveLoadsUpTo(Len(trucks))) % (2 * Cardinality(ActiveIndices))
       = Cardinality(ActiveIndices)

\* Truck arrays with the same active trucks as ts, in the same order: ts
\* without its inactive trucks, ts with other values in the fields of its
\* inactive trucks, and ts with one more inactive truck in front or behind.
SameActiveTrucks(ts) ==
  LET extra == Truck(Len(ts) + 1, 1, MaxWeeklyLoads, 1, FALSE)
  IN  { SelectSeq(ts, LAMBDA t : t.active),
        [i \in DOMAIN ts |->
           IF ts[i].active THEN ts[i]
           ELSE [ts[i] EXCEPT !.weeklyLoads = MaxWeeklyLoads - @,
                              !.minWeeklyLoads = DefaultQuota + 1 - @,
                              !.capacityTons = 1]],
        <<extra>> \o ts,
        Append(ts, extra) }

\* C5: the metrics depend on the active trucks only: every array with the
\* same active trucks gives the same six values.
C5_InactiveIgnored ==
  op = "calculateFairnessMetrics" =>
    \A other \in SameActiveTrucks(trucks) :
      calculateFairnessMetrics(other) = metrics

C5_Witness ==
  /\ op = "calculateFairnessMetrics"
  /\ ActiveIndices # {}
  /\ \E i \in DOMAIN trucks : ~trucks[i].active /\ trucks[i].weeklyLoads > 0
  /\ \E i \in DOMAIN trucks :
       ~trucks[i].active /\ trucks[i].weeklyLoads < trucks[i].minWeeklyLoads

\* C6: getTrucksBelowQuota returns exactly the trucks with active = true and
\* weeklyLoads < minWeeklyLoads, each as often as the input holds it, and no
\* other truck.
C6_BelowQuotaExactly ==
  op = "getTrucksBelowQuota" =>
    \A t \in Range(trucks) \cup Range(trucksOut) :
      Count(t, trucksOut) =
        IF t.active /\ t.weeklyLoads < t.minWeeklyLoads
        THEN Count(t, trucks) ELSE 0

C6_Witness ==
  /\ op = "getTrucksBelowQuota"
  /\ \E t \in Range(trucksOut) : Count(t, trucksOut) = 2
  /\ \E t \in Range(trucks) : t \notin Range(trucksOut)

\* C7: the output of getTrucksBelowQuota is non-decreasing in weeklyLoads, and
\* output trucks with equal weeklyLoads keep their relative order of the input.
C7_SortedStable ==
  op = "getTrucksBelowQuota" =>
    /\ \A i, j \in DOMAIN trucksOut :
         i < j => trucksOut[i].weeklyLoads <= trucksOut[j].weeklyLoads
    /\ \A w \in WeeklyLoadsRange :
         SelectSeq(trucksOut, LAMBDA t : t.weeklyLoads = w)
           = SelectSeq(trucks, LAMBDA t : t.weeklyLoads = w /\ t \in Range(trucksOut))

\* The input is not in order, and two different output trucks tie.
C7_Witness ==
  /\ op = "getTrucksBelowQuota"
  /\ \E i, j \in DOMAIN trucksOut :
       /\ i < j
       /\ trucksOut[i] # trucksOut[j]
       /\ trucksOut[i].weeklyLoads = trucksOut[j].weeklyLoads
  /\ \E i, j \in DOMAIN trucks :
       /\ i < j
       /\ trucks[i] \in Range(trucksOut)
       /\ trucks[j] \in Range(trucksOut)
       /\ trucks[i].weeklyLoads > trucks[j].weeklyLoads

UnassignedIndices == {i \in DOMAIN loads : loads[i].status = "unassigned"}

\* C8: getUnassignedLoads returns exactly the loads with status 'unassigned',
\* in their order of the input: its p-th element is the p-th unassigned load.
C8_UnassignedInOrder ==
  op = "getUnassignedLoads" =>
    /\ Len(loadsOut) = Cardinality(UnassignedIndices)
    /\ \A p \in DOMAIN loadsOut :
         \E i \in UnassignedIndices :
           /\ Cardinality({j \in UnassignedIndices : j <= i}) = p
           /\ loadsOut[p] = loads[i]

C8_Witness ==
  /\ op = "getUnassignedLoads"
  /\ Len(loadsOut) = 2
  /\ loads[1].status = "unassigned"
  /\ loads[2].status = "in_transit"
  /\ loads[3].status = "unassigned"

\* C9: getLoadsNeededForQuota is max(0, minWeeklyLoads - weeklyLoads) for an
\* active truck and 0 for an inactive one; it is never negative, and for an
\* active truck it is positive exactly when weeklyLoads < minWeeklyLoads.
C9_LoadsNeeded ==
  op = "getLoadsNeededForQuota" =>
    LET t == trucks[1]
    IN  /\ needed >= 0
        /\ ~t.active => needed = 0
        /\ (t.active /\ t.weeklyLoads < t.minWeeklyLoads) =>
             needed = t.minWeeklyLoads - t.weeklyLoads
        /\ (t.active /\ t.weeklyLoads >= t.minWeeklyLoads) => needed = 0
        /\ t.active => (needed > 0 <=> t.weeklyLoads < t.minWeeklyLoads)

C9_Witness ==
  /\ op = "getLoadsNeededForQuota"
  /\ trucks[1].active
  /\ trucks[1].weeklyLoads > trucks[1].minWeeklyLoads
  /\ needed = 0

\* C10: canLoadFitInTruck is true if and only if the truck is active and
\* sizeTons <= capacityTons: true at equality, false above, false for every
\* inactive truck.
C10_FitsIffActiveWithinCapacity ==
  op = "canLoadFitInTruck" =>
    LET l == loads[1]
        t == trucks[1]
    IN  /\ fits <=> (t.active /\ l.sizeTons <= t.capacityTons)
        /\ (t.active /\ l.sizeTons = t.capacityTons) => fits
        /\ l.sizeTons > t.capacityTons => ~fits
        /\ ~t.active => ~fits

C10_Witness ==
  /\ op = "canLoadFitInTruck"
  /\ trucks[1].active
  /\ loads[1].sizeTons = trucks[1].capacityTons
  /\ fits

(***************************************************************************)
(* findSuitableTrucks: one call per behaviour of SpecCandidates.  The load *)
(* weighs MaxTons; every truck has that capacity (the load just fits) but  *)
(* the truck at position small, if any, which has one ton less.            *)
(***************************************************************************)
CandidateArray(n, w, q, a, again, small) ==
  LET ts == TruckArray(n, w, q, a, again)
  IN  [i \in DOMAIN ts |->
         IF ts[i].truckId = small
         THEN [ts[i] EXCEPT !.capacityTons = MaxTons - 1] ELSE ts[i]]

FindSuitableTrucks ==
  /\ op = "idle"
  /\ \E n \in 0..MaxTrucks :
       \E w \in [1..n -> WeeklyLoadsRange], q \in [1..n -> FleetQuotas],
          a \in [1..n -> BOOLEAN], again \in BOOLEAN, small \in 0..n :
         /\ trucks' = CandidateArray(n, w, q, a, again, small)
         /\ loads' = <<Load(1, MaxTons, "unassigned", Null)>>
         /\ trucksOut' = findSuitableTrucks(loads'[1], trucks')
  /\ op' = "findSuitableTrucks"
  /\ UNCHANGED <<assignments, metrics, loadsOut, needed, fits, validation>>
  /\ UNCHANGED dashboard

SpecCandidates == Init /\ [][FindSuitableTrucks]_vars

\* max(0, minWeeklyLoads - weeklyLoads) of an active truck, 0 of an inactive one.
Need(t) ==
  IF t.active /\ t.weeklyLoads < t.minWeeklyLoads
  THEN t.minWeeklyLoads - t.weeklyLoads ELSE 0

\* C11: findSuitableTrucks returns exactly the trucks that are active and
\* whose capacityTons is at least load.sizeTons, each as often as the input
\* holds it; it is empty when no truck can carry the load.
C11_SuitableExactly ==
  op = "findSuitableTrucks" =>
    \A t \in Range(trucks) \cup Range(trucksOut) :
      Count(t, trucksOut) =
        IF t.active /\ t.capacityTons >= loads[1].sizeTons
        THEN Count(t, trucks) ELSE 0

\* A truck is returned twice, a too small active truck and an inactive truck
\* are left out.
C11_Witness ==
  /\ op = "findSuitableTrucks"
  /\ \E t \in Range(trucksOut) : Count(t, trucksOut) = 2
  /\ \E t \in Range(trucks) : t.active /\ t.capacityTons < loads[1].sizeTons
  /\ Len(trucksOut) < Len(trucks)

\* C12: in the output of findSuitableTrucks, of two adjacent trucks the first
\* needs at least as many loads as the second, and if they need the same it
\* has at most as many weeklyLoads; trucks with loads/quota 0/3, 1/3, 3/3 come
\* out in that order whatever their input order.
C12_NeedThenLoads ==
  op = "findSuitableTrucks" =>
    /\ \A i \in DOMAIN trucksOut :
         i < Len(trucksOut) =>
           /\ Need(trucksOut[i]) >= Need(trucksOut[i + 1])
           /\ Need(trucksOut[i]) = Need(trucksOut[i + 1]) =>
                trucksOut[i].weeklyLoads <= trucksOut[i + 1].weeklyLoads
    /\ ( /\ Len(trucksOut) = 3
         /\ \A t \in Range(trucksOut) : t.minWeeklyLoads = 3
         /\ {t.weeklyLoads : t \in Range(trucksOut)} = {0, 1, 3} ) =>
           /\ trucksOut[1].weeklyLoads = 0
           /\ trucksOut[2].weeklyLoads = 1
           /\ trucksOut[3].weeklyLoads = 3

\* The three trucks of the example, given with the truck at quota first and
\* the one with no load last.
C12_Witness ==
  /\ op = "findSuitableTrucks"
  /\ Len(trucks) = 3
  /\ \A i \in DOMAIN trucks : trucks[i].minWeeklyLoads = 3 /\ trucks[i].active
  /\ trucks[1].weeklyLoads = 3
  /\ trucks[2].weeklyLoads = 1
  /\ trucks[3].weeklyLoads = 0
  /\ Len(trucksOut) = 3
  /\ trucksOut[1] = trucks[3]

(***************************************************************************)
(* validateAssignments: one call per behaviour of SpecValidate, on two     *)
(* trucks T-001, T-002 and two loads L-1001, L-1002; a pair may also name  *)
(* the truck and the load with number 3, which do not exist.               *)
(***************************************************************************)
MaxAssignments == 2     \* longest batch of pairs

KnownIds == {1, 2}
PairIds == {1, 2, 3}
Pairs == [loadId : PairIds, truckId : PairIds]

ValidateAssignments ==
  /\ op = "idle"
  /\ \E c \in [KnownIds -> {1, MaxTons}], a \in [KnownIds -> BOOLEAN],
        s \in [KnownIds -> {1, MaxTons}], st \in [KnownIds -> LoadStatus] :
       /\ trucks' = [i \in KnownIds |-> Truck(i, c[i], 0, DefaultQuota, a[i])]
       /\ loads' = LoadArray(Cardinality(KnownIds), s, st)
  /\ \E n \in 0..MaxAssignments : assignments' \in [1..n -> Pairs]
  /\ validation' = validateAssignments(assignments', trucks', loads')
  /\ op' = "validateAssignments"
  /\ UNCHANGED <<metrics, trucksOut, loadsOut, needed, fits>>
  /\ UNCHANGED dashboard

SpecValidate == Init /\ [][ValidateAssignments]_vars

\* The load (truck) a pair names is in loads (trucks).
LoadExists(pair) == \E i \in DOMAIN loads : loads[i].loadId = pair.loadId
TruckExists(pair) == \E i \in DOMAIN trucks : trucks[i].truckId = pair.truckId
NamedLoad(pair) == loads[CHOOSE i \in DOMAIN loads : loads[i].loadId = pair.loadId]
NamedTruck(pair) ==
  trucks[CHOOSE i \in DOMAIN trucks : trucks[i].truckId = pair.truckId]

NotFoundKinds == {"Load not found", "Truck not found"}

\* C13: a pair whose load or truck is missing contributes exactly one error,
\* 'Load .. not found' when the load is missing (also when the truck is
\* missing too), else 'Truck .. not found'; a batch of one such pair returns
\* that one error and valid = false.
C13_NotFoundOnce ==
  op = "validateAssignments" =>
    /\ Cardinality({i \in DOMAIN validation.errors :
                      validation.errors[i].kind \in NotFoundKinds})
         = Cardinality({i \in DOMAIN assignments :
                          ~LoadExists(assignments[i]) \/ ~TruckExists(assignments[i])})
    /\ (\A i \in DOMAIN assignments :
          ~LoadExists(assignments[i]) \/ ~TruckExists(assignments[i])) =>
         /\ Len(validation.errors) = Len(assignments)
         /\ \A i \in DOMAIN assignments :
              validation.errors[i] =
                IF ~LoadExists(assignments[i])
                THEN LoadNotFound(assignments[i].loadId)
                ELSE TruckNotFound(assignments[i].truckId)
         /\ assignments # <<>> => ~validation.valid

\* One pair, its load and its truck both missing.
C13_Witness ==
  /\ op = "validateAssignments"
  /\ Len(assignments) = 1
  /\ ~LoadExists(assignments[1])
  /\ ~TruckExists(assignments[1])
  /\ Len(validation.errors) = 1

\* How many of the three conditions the pair violates.
Violations(pair) ==
  (IF ~NamedTruck(pair).active THEN 1 ELSE 0)
  + (IF NamedLoad(pair).sizeTons > NamedTruck(pair).capacityTons THEN 1 ELSE 0)
  + (IF NamedLoad(pair).status # "unassigned" THEN 1 ELSE 0)

RECURSIVE ViolationsUpTo(_)
ViolationsUpTo(n) ==
  IF n = 0 THEN 0 ELSE ViolationsUpTo(n - 1) + Violations(assignments[n])

\* C14: a pair whose load and truck exist contributes as many errors as it
\* violates conditions among truck inactive, sizeTons > capacityTons and
\* status not 'unassigned'; an inactive truck whose capacity is exceeded gives
\* two distinct errors.
C14_OneErrorPerViolation ==
  ( /\ op = "validateAssignments"
    /\ \A i \in DOMAIN assignments :
         LoadExists(assignments[i]) /\ TruckExists(assignments[i]) ) =>
    /\ Len(validation.errors) = ViolationsUpTo(Len(assignments))
    /\ ( /\ Len(assignments) = 1
         /\ ~NamedTruck(assignments[1]).active
         /\ NamedLoad(assignments[1]).sizeTons
              > NamedTruck(assignments[1]).capacityTons ) =>
         /\ Len(validation.errors) >= 2
         /\ validation.errors[1].kind = "Truck is inactive"
         /\ validation.errors[2].kind = "Load exceeds truck capacity"

\* One pair that violates all three conditions.
C14_Witness ==
  /\ op = "validateAssignments"
  /\ Len(assignments) = 1
  /\ LoadExists(assignments[1])
  /\ TruckExists(assignments[1])
  /\ Violations(assignments[1]) = 3
  /\ Len(validation.errors) = 3

\* The errors of validating the pairs n.. of the batch one by one.
RECURSIVE ErrorsOneByOne(_)
ErrorsOneByOne(n) ==
  IF n > Len(assignments) THEN <<>>
  ELSE validateAssignments(<<assignments[n]>>, trucks, loads).errors
         \o ErrorsOneByOne(n + 1)

\* C15: the errors of a batch are the errors of its pairs, each validated
\* alone against the same trucks and loads, in batch order.
C15_PairsIndependent ==
  op = "validateAssignments" => validation.errors = ErrorsOneByOne(1)

\* A missing load in the first pair, an error in the second.
C15_Witness ==
  /\ op = "validateAssignments"
  /\ Len(assignments) = 2
  /\ ~LoadExists(assignments[1])
  /\ LoadExists(assignments[2])
  /\ TruckExists(assignments[2])
  /\ Violations(assignments[2]) = 1
  /\ Len(validation.errors) = 2

\* C16: valid is true iff errors is empty, which is the case exactly when
\* every pair names an existing load and an existing active truck with
\* sizeTons <= capacityTons and status 'unassigned'; an empty batch is valid.
C16_ValidIffNoError ==
  op = "validateAssignments" =>
    /\ validation.valid <=> validation.errors = <<>>
    /\ validation.valid <=>
         \A i \in DOMAIN assignments :
           /\ LoadExists(assignments[i])
           /\ TruckExists(assignments[i])
           /\ NamedTruck(assignments[i]).active
           /\ NamedLoad(assignments[i]).sizeTons
                <= NamedTruck(assignments[i]).capacityTons
           /\ NamedLoad(assignments[i]).status = "unassigned"
    /\ assignments = <<>> => validation = [valid |-> TRUE, errors |-> <<>>]

C16_Witness ==
  /\ op = "validateAssignments"
  /\ Len(assignments) = MaxAssignments
  /\ validation.valid
  /\ \E i \in DOMAIN trucks : ~trucks[i].active
  /\ \E i \in DOMAIN loads : loads[i].status = "assigned"

\* C17: a batch that proposes the same load for two trucks is not reported
\* as valid.
C17_DuplicateLoadRejected ==
  ( /\ op = "validateAssignments"
    /\ \E i, j \in DOMAIN assignments :
         /\ assignments[i].loadId = assignments[j].loadId
         /\ assignments[i].truckId # assignments[j].truckId ) =>
    ~validation.valid

(***************************************************************************)
(* The arguments after a call.  The module reads its arrays with filter,   *)
(* reduce, find and for...of, which leave their receiver as it was; the    *)
(* two calls to sort have the array that filter returned as receiver; no   *)
(* function assigns to a field of a truck, a load or a pair.               *)
(***************************************************************************)
\* trucks.sort(...): the receiver is the argument itself.
SortedInPlace(call, ts, ls, as) ==
  [trucks |-> IF call = "getTrucksBelowQuota"
              THEN Sort(ts, [p \in Range(ts) \X Range(ts) |->
                               FewestLoadsFirst(p[1], p[2])])
              ELSE IF call = "findSuitableTrucks"
              THEN Sort(ts, [p \in Range(ts) \X Range(ts) |->
                               MostNeedFirst(p[1], p[2])])
              ELSE ts,
   loads |-> ls,
   assignments |-> as]

ArgumentsAfter(call, ts, ls, as) ==
  [trucks |-> ts, loads |-> ls, assignments |-> as]

\* The arrays a caller holds before it calls the module.
InitSnapshot ==
  /\ op = "idle"
  /\ \E n \in 0..MaxTrucks :
       \E w \in [1..n -> WeeklyLoadsRange], a \in BOOLEAN :
         trucks = Fleet(n, w, [i \in 1..n |-> DefaultQuota],
                        [i \in 1..n |-> i > 1 \/ a])
  /\ \E st \in [KnownIds -> {"unassigned", "assigned"}] :
       loads = LoadArray(Cardinality(KnownIds), [i \in KnownIds |-> 1], st)
  /\ \E n \in 0..MaxAssignments :
       assignments \in [1..n -> [loadId : {1}, truckId : KnownIds]]
  /\ metrics = ZeroMetrics
  /\ trucksOut = <<>>
  /\ loadsOut = <<>>
  /\ needed = 0
  /\ fits = FALSE
  /\ validation = [valid |-> TRUE, errors |-> <<>>]
  /\ InitDashboard

\* What every call does to the arrays it was given.
Returned(call) ==
  /\ op = "idle"
  /\ op' = call
  /\ trucks' = ArgumentsAfter(call, trucks, loads, assignments).trucks
  /\ loads' = ArgumentsAfter(call, trucks, loads, assignments).loads
  /\ assignments' = ArgumentsAfter(call, trucks, loads, assignments).assignments

CallCalculateFairnessMetrics ==
  /\ Returned("calculateFairnessMetrics")
  /\ metrics' = calculateFairnessMetrics(trucks)
  /\ UNCHANGED <<trucksOut, loadsOut, needed, fits, validation>>
  /\ UNCHANGED dashboard

CallGetTrucksBelowQuota ==
  /\ Returned("getTrucksBelowQuota")
  /\ trucksOut' = getTrucksBelowQuota(trucks)
  /\ UNCHANGED <<metrics, loadsOut, needed, fits, validation>>
  /\ UNCHANGED dashboard

CallGetUnassignedLoads ==
  /\ Returned("getUnassignedLoads")
  /\ loadsOut' = getUnassignedLoads(loads)
  /\ UNCHANGED <<metrics, trucksOut, needed, fits, validation>>
  /\ UNCHANGED dashboard

CallFindSuitableTrucks ==
  /\ Returned("findSuitableTrucks")
  /\ trucksOut' = findSuitableTrucks(loads[1], trucks)
  /\ UNCHANGED <<metrics, loadsOut, needed, fits, validation>>
  /\ UNCHANGED dashboard

CallValidateAssignments ==
  /\ Returned("validateAssignments")
  /\ validation' = validateAssignments(assignments, trucks, loads)
  /\ UNCHANGED <<metrics, trucksOut, loadsOut, needed, fits>>
  /\ UNCHANGED dashboard

NextCall ==
  \/ CallCalculateFairnessMetrics
  \/ CallGetTrucksBelowQuota
  \/ CallGetUnassignedLoads
  \/ CallFindSuitableTrucks
  \/ CallValidateAssignments

SpecFrame == InitSnapshot /\ [][NextCall]_vars

initialTrucks ==
  Fleet(Cardinality(KnownIds), [i \in KnownIds |-> 0],
        [i \in KnownIds |-> DefaultQuota],
        [i \in KnownIds |-> i < Cardinality(KnownIds)])

initialLoads ==
  LoadArray(Cardinality(KnownIds), [i \in KnownIds |-> 1],
            [i \in KnownIds |-> "unassigned"])

\* { ...load, status: 'assigned' }
MarkedAssigned(load, truck) == [load EXCEPT !.status = "assigned"]

\* { ...load, status: 'assigned', assignedTruckId: truck.id }
AssignedTo(load, truck) ==
  [load EXCEPT !.status = "assigned", !.assignedTruckId = truck.id]

\* The updater given to setLoads: the trucks it searches are those of the
\* render that made the handler.
RECURSIVE UpdatedLoads(_, _, _, _)
UpdatedLoads(as, i, closure, updatedLoads) ==
  IF i > Len(as) THEN updatedLoads
  ELSE LET loadIndex == FindLoad(updatedLoads, as[i].loadId)
           truck == FindTruck(closure, as[i].truckId)
       IN  UpdatedLoads(as, i + 1, closure,
             IF loadIndex # 0 /\ truck # 0
             THEN [updatedLoads EXCEPT
                     ![loadIndex] = AssignedTo(@, closure[truck])]
             ELSE updatedLoads)

\* The updater given to setTrucks.
RECURSIVE UpdatedTrucks(_, _, _)
UpdatedTrucks(as, i, updatedTrucks) ==
  IF i > Len(as) THEN updatedTrucks
  ELSE LET truckIndex == FindTruck(updatedTrucks, as[i].truckId)
       IN  UpdatedTrucks(as, i + 1,
             IF truckIndex # 0
             THEN [updatedTrucks EXCEPT
                     ![truckIndex].weeklyLoads = @ + 1]
             ELSE updatedTrucks)

\* The batches a schedule response may carry: no more pairs than the
\* application has loads at the start, any of them naming any id.
Batches == UNION {[1..n -> Pairs] : n \in 0..Len(initialLoads)}

\* The trucks of an earlier render: trucks are only ever appended, and the
\* handler reads truckId and id of them, which no handler changes.
Closures == {SubSeq(trucks, 1, k) : k \in Len(initialTrucks)..Len(trucks)}

InitApp ==
  /\ op = "idle"
  /\ trucks = initialTrucks
  /\ loads = initialLoads
  /\ assignments = <<>>
  /\ metrics = ZeroMetrics
  /\ trucksOut = <<>>
  /\ loadsOut = <<>>
  /\ needed = 0
  /\ fits = FALSE
  /\ validation = [valid |-> TRUE, errors |-> <<>>]
  /\ InitDashboard

\* The loads assigned, and a truck that no pair names losing one of its
\* weeklyLoads.
ScheduleShifted(as, closure) ==
  /\ loads' = UpdatedLoads(as, 1, closure, loads)
  /\ trucks' =
       [i \in DOMAIN trucks |->
          IF \E k \in DOMAIN as : as[k].truckId = trucks[i].truckId
          THEN UpdatedTrucks(as, 1, trucks)[i]
          ELSE [trucks[i] EXCEPT !.weeklyLoads = Max(0, @ - 1)]]
  /\ \A i \in DOMAIN trucks' : trucks'[i].weeklyLoads <= MaxWeeklyLoads

ScheduleGenerated(as, closure) ==
  /\ loads' = UpdatedLoads(as, 1, closure, loads)
  /\ trucks' = UpdatedTrucks(as, 1, trucks)
  /\ \A i \in DOMAIN trucks' : trucks'[i].weeklyLoads <= MaxWeeklyLoads

HandleScheduleGenerated ==
  /\ op # "committed"
  /\ \E as \in Batches, closure \in Closures : ScheduleGenerated(as, closure)
  /\ op' = "handleScheduleGenerated"
  /\ UNCHANGED <<assignments, metrics, trucksOut, loadsOut, needed, fits, validation>>
  /\ UNCHANGED dashboard

HandleAddLoad ==
  /\ op # "committed"
  /\ Len(loads) < Cardinality(PairIds)
  /\ \E sizeTons \in {1, MaxTons} :
       LET newLoadNum == Len(loads) + 1
       IN  loads' = Append(loads, Load(newLoadNum, sizeTons, "unassigned", Null))
  /\ op' = "handleAddLoad"
  /\ UNCHANGED <<trucks, assignments, metrics, trucksOut, loadsOut, needed, fits, validation>>
  /\ UNCHANGED dashboard

\* TruckImport numbers the new truck after the trucks it was shown.  Loads
\* and trucks are added for as long as a batch has an id to name them by.
HandleImportTrucks ==
  /\ op # "committed"
  /\ Len(trucks) < Cardinality(PairIds)
  /\ \E weeklyLoads \in {0, 1} :
       LET nextTruckNum == Len(trucks) + 1
       IN  trucks' = trucks \o <<Truck(nextTruckNum, MaxTons, weeklyLoads,
                                       DefaultQuota, TRUE)>>
  /\ op' = "handleImportTrucks"
  /\ UNCHANGED <<loads, assignments, metrics, trucksOut, loadsOut, needed, fits, validation>>
  /\ UNCHANGED dashboard

NextApp ==
  \/ HandleScheduleGenerated
  \/ HandleAddLoad
  \/ HandleImportTrucks

SpecApp == InitApp /\ [][NextApp]_vars

\* The handler once more, the batch it was given kept in assignments.
CommitSchedule ==
  /\ op # "committed"
  /\ \E as \in Batches, closure \in Closures :
       /\ ScheduleGenerated(as, closure)
       /\ assignments' = as
  /\ op' = "committed"
  /\ UNCHANGED <<metrics, trucksOut, loadsOut, needed, fits, validation>>
  /\ UNCHANGED dashboard

NextCommit ==
  \/ HandleScheduleGenerated
  \/ HandleAddLoad
  \/ HandleImportTrucks
  \/ CommitSchedule

SpecCommit == InitApp /\ [][NextCommit]_vars

\* Every pair of the batch names a load and a truck the application has.
AllNamed(as) ==
  \A i \in DOMAIN as :
    /\ FindLoad(loads, as[i].loadId) # 0
    /\ FindTruck(trucks, as[i].truckId) # 0

\* The number of pairs of the batch that name the truck.
PairsNaming(as, truckId) == Cardinality({i \in DOMAIN as : as[i].truckId = truckId})

\* C19: when every pair of the batch names an existing load and an existing
\* truck, handleScheduleGenerated leaves every named load assigned, with the
\* id of the truck it was paired with as assignedTruckId, every truck with
\* as many weeklyLoads more as there are pairs naming it, and the loads that
\* no pair names as they were.
C19_CommitEffect ==
  [][ (op' = "committed" /\ AllNamed(assignments')) =>
        /\ Len(loads') = Len(loads)
        /\ Len(trucks') = Len(trucks)
        /\ \A i \in DOMAIN assignments' :
             LET l == FindLoad(loads, assignments'[i].loadId)
                 t == FindTruck(trucks, assignments'[i].truckId)
             IN  /\ loads'[l].status = "assigned"
                 /\ loads'[l].assignedTruckId = trucks[t].id
        /\ \A t \in DOMAIN trucks :
             trucks'[t] =
               [trucks[t] EXCEPT
                  !.weeklyLoads = @ + PairsNaming(assignments', trucks[t].truckId)]
        /\ \A l \in DOMAIN loads :
             (\A i \in DOMAIN assignments' :
                assignments'[i].loadId # loads[l].loadId) =>
               loads'[l] = loads[l] ]_vars

\* C20: in every state the application reaches from the initial loads by
\* handleScheduleGenerated and handleAddLoad, a load has an assignedTruckId
\* exactly when its status is not 'unassigned'.
C20_TruckIffNotUnassigned ==
  \A i \in DOMAIN loads :
    loads[i].assignedTruckId # Null <=> loads[i].status # "unassigned"

C20_Witness ==
  /\ op = "handleScheduleGenerated"
  /\ Len(loads) > Len(initialLoads)
  /\ \E i \in DOMAIN loads : loads[i].status = "assigned"
  /\ \E i \in DOMAIN loads : loads[i].status = "unassigned"

(***************************************************************************)
(* TruckImport: the trucks built from the rows of a CSV file or of the     *)
(* manual form.  truckId and loadId of the model are the numbers the       *)
(* display codes are formatted from.                                       *)
(***************************************************************************)
\* String(n)
RECURSIVE Digits(_)
Digits(n) == IF n < 10 THEN <<n>> ELSE Append(Digits(n \div 10), n % 10)

\* s.padStart(targetLength, '0')
PadStart(s, targetLength) ==
  IF Len(s) >= targetLength THEN s
  ELSE [i \in 1..(targetLength - Len(s)) |-> 0] \o s

\* `T-${String(n).padStart(3, '0')}`
TruckCode(truckNum) == <<"T", "-">> \o PadStart(Digits(truckNum), 3)

\* `L-${newLoadNum}`, the loads being numbered from 1001
LoadCode(loadNum) == <<"L", "-">> \o Digits(1000 + loadNum)

\* existingTrucks.length
LastTruckNum(existingTrucks) == Len(existingTrucks)

\* existingTrucks.length + 1
NextTruckNum(existingTrucks) == Len(existingTrucks) + 1

\* parsedData.map((truck, index) => ...), manualTrucks.map(...)
NewTrucks(existingTrucks, rows) ==
  [index \in 1..Len(rows) |->
     Truck(NextTruckNum(existingTrucks) + (index - 1), rows[index].capacityTons,
           rows[index].weeklyLoads, DefaultQuota, rows[index].active)]

\* The rows of one import.
Rows == [capacityTons : {MaxTons}, weeklyLoads : {0, 1}, active : BOOLEAN]
RowArrays == [{1} -> Rows] \cup [KnownIds -> Rows]

HandleConfirmImport ==
  /\ \E parsedData \in RowArrays :
       /\ Len(trucks) + Len(parsedData) <= Len(initialTrucks) + MaxTrucks
       /\ trucks' = trucks \o NewTrucks(trucks, parsedData)
  /\ op' = "handleConfirmImport"
  /\ UNCHANGED <<loads, assignments, metrics, trucksOut, loadsOut, needed, fits, validation>>
  /\ UNCHANGED dashboard

HandleSaveManualTrucks ==
  /\ \E manualTrucks \in RowArrays :
       /\ Len(trucks) + Len(manualTrucks) <= Len(initialTrucks) + MaxTrucks
       /\ trucks' = trucks \o NewTrucks(trucks, manualTrucks)
  /\ op' = "handleSaveManualTrucks"
  /\ UNCHANGED <<loads, assignments, metrics, trucksOut, loadsOut, needed, fits, validation>>
  /\ UNCHANGED dashboard

NextImport ==
  \/ HandleConfirmImport
  \/ HandleSaveManualTrucks
  \/ HandleAddLoad

SpecImport == InitApp /\ [][NextImport]_vars

\* C21: whatever trucks are imported and loads added, no two trucks have the
\* same truckId and no two loads the same loadId.
C21_CodesUnique ==
  /\ \A i, j \in DOMAIN trucks :
       TruckCode(trucks[i].truckId) = TruckCode(trucks[j].truckId) => i = j
  /\ \A i, j \in DOMAIN loads :
       LoadCode(loads[i].loadId) = LoadCode(loads[j].loadId) => i = j

\* Trucks imported from a CSV file and by hand, and a load added.
C21_Witness ==
  /\ op = "handleConfirmImport"
  /\ Len(trucks) = Len(initialTrucks) + MaxTrucks
  /\ Len(loads) > Len(initialLoads)

\* C22: in the output of findSuitableTrucks every truck below its quota comes
\* before every truck at or above its quota; the trucks at or above quota
\* need 0 loads and are ordered among themselves by weeklyLoads ascending.
C22_BelowQuotaFirst ==
  op = "findSuitableTrucks" =>
    \A i, j \in DOMAIN trucksOut :
      /\ trucksOut[i].weeklyLoads >= trucksOut[i].minWeeklyLoads =>
           getLoadsNeededForQuota(trucksOut[i]) = 0
      /\ ( /\ trucksOut[i].weeklyLoads < trucksOut[i].minWeeklyLoads
           /\ trucksOut[j].weeklyLoads >= trucksOut[j].minWeeklyLoads ) => i < j
      /\ ( /\ i < j
           /\ trucksOut[i].weeklyLoads >= trucksOut[i].minWeeklyLoads
           /\ trucksOut[j].weeklyLoads >= trucksOut[j].minWeeklyLoads ) =>
             trucksOut[i].weeklyLoads <= trucksOut[j].weeklyLoads

\* A truck above its quota with more loads is given first, then a truck at
\* its quota, then a truck below its quota; all three are returned.
C22_Witness ==
  /\ op = "findSuitableTrucks"
  /\ Len(trucks) = MaxTrucks
  /\ Len(trucksOut) = Len(trucks)
  /\ trucks[1].weeklyLoads > trucks[1].minWeeklyLoads
  /\ trucks[2].weeklyLoads = trucks[2].minWeeklyLoads
  /\ trucks[2].weeklyLoads < trucks[1].weeklyLoads
  /\ trucks[Len(trucks)].weeklyLoads < trucks[Len(trucks)].minWeeklyLoads

\* C23: a load that is assigned stays assigned to the same truck: no call of
\* handleScheduleGenerated, whatever its batch, sets it back to 'unassigned'
\* or gives it the id of another truck.
C23_AssignedOnce ==
  [][ op' = "handleScheduleGenerated" =>
        \A i \in DOMAIN loads :
          loads[i].status = "assigned" =>
            /\ loads'[i].status = "assigned"
            /\ loads'[i].assignedTruckId = loads[i].assignedTruckId ]_vars

\* The pairs of the batch that name the truck and a load the application has.
PairsApplied(as, truckId) ==
  Cardinality({i \in DOMAIN as : /\ as[i].truckId = truckId
                                 /\ FindLoad(loads, as[i].loadId) # 0})

\* C24: handleScheduleGenerated applies a pair as a whole: a truck gains one
\* weeklyLoads for each pair that names it and a load that is then assigned,
\* and a batch of pairs whose load or truck is not found changes neither the
\* loads nor the trucks.
C24_PairAtomic ==
  [][ op' = "committed" =>
        /\ \A t \in DOMAIN trucks :
             trucks'[t].weeklyLoads =
               trucks[t].weeklyLoads + PairsApplied(assignments', trucks[t].truckId)
        /\ (\A i \in DOMAIN assignments' :
              \/ FindLoad(loads, assignments'[i].loadId) = 0
              \/ FindTruck(trucks, assignments'[i].truckId) = 0) =>
             /\ loads' = loads
             /\ trucks' = trucks ]_vars

(***************************************************************************)
(* Dashboard: the generate button and handleGenerateSchedule, whose part   *)
(* after the await runs when generateSchedule settles.  App shows one view *)
(* at a time; a Dashboard that is no longer shown is unmounted, its state  *)
(* is gone and its setters do nothing, but its pending call still settles  *)
(* and still calls the onScheduleGenerated it was given.                   *)
(***************************************************************************)
Views == {"dashboard", "loads"}

\* disabled={isGenerating || unassignedLoads.length === 0}
ButtonDisabled == isGenerating \/ Len(getUnassignedLoads(loads)) = 0

\* The Dashboard with number k is the one on screen.
Mounted(k) == currentView = "dashboard" /\ mounts = k

\* What generateSchedule may resolve with: no pair or one pair.
Responses == {as \in Batches : Len(as) <= 1}

\* What generateSchedule may reject with: an Error with a message, or
\* something that is no Error.
Rejections == [isError : BOOLEAN, message : {"Network error"}]

\* err instanceof Error ? err.message : 'Failed to generate schedule'
ErrorMessage(err) ==
  IF err.isError THEN err.message ELSE "Failed to generate schedule"

\* isGenerating with no finally block.
NoFinally(k) == isGenerating

\* finally { setIsGenerating(false) }
Finally(k) == IF Mounted(k) THEN FALSE ELSE isGenerating

\* The click on the button, up to the await.
HandleGenerateSchedule ==
  /\ currentView = "dashboard"
  /\ ~ButtonDisabled
  /\ isGenerating' = TRUE
  /\ error' = NoError
  /\ requests' = [requests EXCEPT ![mounts] = @ + 1]
  /\ op' = "handleGenerateSchedule"
  /\ UNCHANGED <<trucks, loads, assignments, metrics, trucksOut, loadsOut,
                 needed, fits, validation, currentView, mounts>>

\* generateSchedule resolves: onScheduleGenerated(result.assignments).
ScheduleResolved ==
  /\ \E k \in DOMAIN requests :
       /\ requests[k] > 0
       /\ requests' = [requests EXCEPT ![k] = @ - 1]
       /\ isGenerating' = Finally(k)
  /\ \E as \in Responses, closure \in Closures : ScheduleGenerated(as, closure)
  /\ op' = "scheduleResolved"
  /\ UNCHANGED <<assignments, metrics, trucksOut, loadsOut, needed, fits,
                 validation, currentView, mounts, error>>

\* generateSchedule rejects: the catch block.
ScheduleRejected ==
  /\ \E k \in DOMAIN requests, err \in Rejections :
       /\ requests[k] > 0
       /\ requests' = [requests EXCEPT ![k] = @ - 1]
       /\ error' = IF Mounted(k) THEN ErrorMessage(err) ELSE error
       /\ isGenerating' = Finally(k)
       /\ op' = IF err.isError THEN "rejectedWithError" ELSE "rejectedWithValue"
  /\ UNCHANGED <<trucks, loads, assignments, metrics, trucksOut, loadsOut,
                 needed, fits, validation, currentView, mounts>>

\* The navigation: the Dashboard is unmounted, or a new one mounted.
SetCurrentView ==
  /\ \E view \in Views \ {currentView} :
       /\ currentView' = view
       /\ view = "dashboard" => mounts < MaxMounts
       /\ mounts' = IF view = "dashboard" THEN mounts + 1 ELSE mounts
  /\ isGenerating' = FALSE
  /\ error' = NoError
  /\ op' = "setCurrentView"
  /\ UNCHANGED <<trucks, loads, assignments, metrics, trucksOut, loadsOut,
                 needed, fits, validation, requests>>

\* LoadList adds a load.
AddLoadFromList ==
  /\ currentView = "loads"
  /\ HandleAddLoad

NextDashboard ==
  \/ HandleGenerateSchedule
  \/ ScheduleResolved
  \/ ScheduleRejected
  \/ SetCurrentView
  \/ AddLoadFromList

SpecDashboard == InitApp /\ [][NextDashboard]_vars

\* Every call of generateSchedule settles.
SpecSettling ==
  SpecDashboard /\ WF_vars(ScheduleResolved \/ ScheduleRejected)

\* The Dashboards with a generateSchedule call that has not settled.
Generating == {k \in DOMAIN requests : requests[k] > 0}

\* C25: at most one schedule generation is in flight at a time: while a
\* generateSchedule call has not settled the generate button is disabled, so
\* no two calls overlap; the button is also disabled whenever no load is
\* unassigned.
C25_OneInFlight ==
  /\ Cardinality(Generating) <= 1
  /\ \A k \in Generating : requests[k] = 1
  /\ currentView = "dashboard" =>
       /\ Generating # {} => ButtonDisabled
       /\ (\A i \in DOMAIN loads : loads[i].status # "unassigned") => ButtonDisabled

\* A generateSchedule call of the Dashboard with number k settles in this step.
Settled(k) == requests'[k] = requests[k] - 1

\* C26: when generateSchedule rejects, trucks and loads stay as they are, the
\* Dashboard that made the call shows the message of the Error, or 'Failed
\* to generate schedule' when the rejection is no Error, and its
\* isGenerating is false again; and whenever isGenerating is true it is
\* eventually false again.
C26_RejectionHandled ==
  /\ [][ \A k \in DOMAIN requests :
           (Settled(k) /\ op' \in {"rejectedWithError", "rejectedWithValue"}) =>
             /\ trucks' = trucks
             /\ loads' = loads
             /\ Mounted(k) =>
                  /\ isGenerating' = FALSE
                  /\ error' = IF op' = "rejectedWithError"
                              THEN "Network error"
                              ELSE "Failed to generate schedule" ]_vars
  /\ isGenerating ~> ~isGenerating

\* The Dashboard on screen shows the generic message after a rejection that
\* was no Error.
C26_Witness ==
  /\ op = "rejectedWithValue"
  /\ currentView = "dashboard"
  /\ error = "Failed to generate schedule"
  /\ ~isGenerating
  /\ requests[mounts] = 0

(***************************************************************************)
(* The two other computations of the fairness metrics.                     *)
(***************************************************************************)
\* calculateFairnessMetrics exported next to initialTrucks: no test of
\* activeTrucks.length before the divisions.
initialTrucksMetrics(ts) == QuotaMetrics(ActiveTrucks(ts))

\* The metrics memo of the Dashboard: each quotient is guarded by
\* activeTrucks.length > 0.
DashboardMetrics(ts) ==
  LET activeTrucks == ActiveTrucks(ts)
  IN  [totalTrucks |-> Len(activeTrucks),
       trucksAtQuota |-> Len(SelectSeq(activeTrucks, AtQuota)),
       trucksBelowQuota |-> Len(SelectSeq(activeTrucks, BelowQuota)),
       trucksAboveQuota |-> Len(SelectSeq(activeTrucks, AboveQuota)),
       fairnessPercentage |->
         IF Len(activeTrucks) > 0
         THEN QuotaMetrics(activeTrucks).fairnessPercentage ELSE 0,
       averageLoadsPerTruck |->
         IF Len(activeTrucks) > 0
         THEN QuotaMetrics(activeTrucks).averageLoadsPerTruck ELSE 0]

\* C27: for every truck collection, the empty one and one with only inactive
\* trucks included, calculateFairnessMetrics of the fairness module, the
\* calculateFairnessMetrics next to initialTrucks and the metrics of the
\* Dashboard give the same six values.
C27_MetricsAgree ==
  op = "calculateFairnessMetrics" =>
    /\ metrics = calculateFairnessMetrics(trucks)
    /\ initialTrucksMetrics(trucks) = metrics
    /\ DashboardMetrics(trucks) = metrics

\* A week of schedules on the initial fleet: no truck is imported.
NextWeek ==
  \/ HandleScheduleGenerated
  \/ HandleAddLoad

SpecWeek == InitApp /\ [][NextWeek]_vars

\* The loads that carry the id of the truck.
LoadsOf(truck) == {i \in DOMAIN loads : loads[i].assignedTruckId = truck.id}

\* C28: from the fresh week (every weeklyLoads 0, every load unassigned),
\* after any calls of handleScheduleGenerated the weeklyLoads of each truck
\* is the number of loads whose assignedTruckId is the id of that truck.
C28_CounterIsLoads ==
  \A t \in DOMAIN trucks : trucks[t].weeklyLoads = Cardinality(LoadsOf(trucks[t]))

\* The errors of the batch that say the truck of the pair is inactive or too
\* small for the load of the pair.
FitErrors(pair) ==
  {i \in DOMAIN validation.errors :
     \/ validation.errors[i] = TruckInactive(pair.truckId)
     \/ validation.errors[i] =
          CapacityExceeded(pair.loadId, NamedLoad(pair).sizeTons,
                           pair.truckId, NamedTruck(pair).capacityTons)}

\* C29: for a pair whose load and truck exist, validateAssignments reports
\* neither 'is inactive' nor 'exceeds truck capacity' exactly when
\* canLoadFitInTruck(load, truck) is true; and every truck findSuitableTrucks
\* returns for an unassigned load makes a pair that validates with no error.
C29_ValidateAgreesWithFit ==
  op = "validateAssignments" =>
    /\ \A i \in DOMAIN assignments :
         (LoadExists(assignments[i]) /\ TruckExists(assignments[i])) =>
           ( FitErrors(assignments[i]) = {}
             <=> canLoadFitInTruck(NamedLoad(assignments[i]),
                                   NamedTruck(assignments[i])) )
    /\ \A l \in DOMAIN loads :
         loads[l].status = "unassigned" =>
           \A t \in Range(findSuitableTrucks(loads[l], trucks)) :
             validateAssignments(<<[loadId |-> loads[l].loadId,
                                    truckId |-> t.truckId]>>, trucks, loads)
               = [valid |-> TRUE, errors |-> <<>>]

\* A batch with a pair that fits but whose load is already assigned and a pair
\* with an inactive truck, on a fleet with a truck suitable for an unassigned
\* load.
C29_Witness ==
  /\ op = "validateAssignments"
  /\ \E i, j \in DOMAIN assignments :
       /\ LoadExists(assignments[i]) /\ TruckExists(assignments[i])
       /\ LoadExists(assignments[j]) /\ TruckExists(assignments[j])
       /\ FitErrors(assignments[i]) = {}
       /\ NamedLoad(assignments[i]).status = "assigned"
       /\ ~NamedTruck(assignments[j]).active
  /\ \E l \in DOMAIN loads :
       /\ loads[l].status = "unassigned"
       /\ findSuitableTrucks(loads[l], trucks) # <<>>

\* The fleet and its schedules: trucks are imported between the calls of
\* handleScheduleGenerated, no load is added.
NextFleet ==
  \/ HandleScheduleGenerated
  \/ HandleImportTrucks

SpecFleet == InitApp /\ [][NextFleet]_vars

====
